---- MODULE Spec2Model ----
(***************************************************************************)
(* Navigation and perception engine of the traffic simulation              *)
(* (src/navigation.py): FrontView, car_obstacles, light_obstacles,         *)
(* determine_pedigree, find_traffic_lights, get_init_path.                 *)
(*                                                                         *)
(* Coordinates are integers.  A Python exception is the result             *)
(* Raise(name); a normal return is Return(value).  Python's False          *)
(* ("no obstacle", "end of route") is the value PyFalse, distinct from     *)
(* every number.                                                           *)
(***************************************************************************)
EXTENDS Integers, Sequences, FiniteSets, TLC

VARIABLES degree_view, G, car, look_ahead_nodes, view, op, arg, result

vars == <<degree_view, G, car, look_ahead_nodes, view, op, arg, result>>

----------------------------------------------------------------------------
(* Bounds of the model *)

NumNodes == 9          \* nodes in the degree view of find_traffic_lights
MaxDegree == 4         \* largest node degree drawn
MaxX == 1              \* car / waypoint / obstacle x in 0..MaxX
MaxY == 1              \* car / waypoint / obstacle y in 0..MaxY
MaxPathLen == 3        \* longest remaining waypoint path drawn
MaxLookAhead == 3      \* look_ahead_nodes drawn from 1..MaxLookAhead
MaxFleet == 2          \* longest fleet table drawn

----------------------------------------------------------------------------
(* Python values *)

PyFalse == [kind |-> "False"]
Float(v) == [kind |-> "float", v |-> v]
Return(v) == [status |-> "return", val |-> v]
Raise(e) == [status |-> "raise", val |-> e]
NoResult == [status |-> "none", val |-> "none"]

Abs(a) == IF a < 0 THEN -a ELSE a

SeqsUpTo(S, n) == UNION {[1..k -> S] : k \in 0..n}

\* list[:k]
Take(s, k) == SubSeq(s, 1, IF k < Len(s) THEN k ELSE Len(s))

\* np.isclose(a, b, rtol=1.0e-6) with numpy's default atol=1.0e-8, for the
\* rationals a/den and b/den:  |a - b| <= atol + rtol * |b|
isclose(a, b, den) == Abs(a - b) * 100000000 <= den + 100 * Abs(b)

----------------------------------------------------------------------------
(* find_traffic_lights *)

prescale == 4

\* G.degree(): the (node, degree) pairs in node-iteration order
DegreeViews == {[i \in 1..NumNodes |-> <<i, d[i]>>] : d \in [1..NumNodes -> 2..MaxDegree]}

RECURSIVE ftl_loop(_, _)
ftl_loop(dv, n) ==
    IF n = 0 THEN <<>>
    ELSE LET rest == ftl_loop(dv, n - 1)
             i == n - 1          \* enumerate() counts from 0
         IN IF dv[n][2] > 3 /\ ~(i % prescale # 0)
            THEN Append(rest, dv[n]) ELSE rest

RECURSIVE ftl_eligible_index(_, _)
ftl_eligible_index(dv, n) ==
    IF n = 0 THEN <<>>
    ELSE LET rest == ftl_eligible_index(dv, n - 1)
             k == Len(SelectSeq(SubSeq(dv, 1, n), LAMBDA nd : nd[2] > 3)) - 1
         IN IF dv[n][2] > 3 /\ (k % prescale = 0)
            THEN Append(rest, dv[n]) ELSE rest

\* faulty variant: the prescale is applied to the index among eligible nodes
find_traffic_lights_eligible_index(dv) == ftl_eligible_index(dv, Len(dv))

find_traffic_lights(dv) == ftl_loop(dv, Len(dv))

----------------------------------------------------------------------------
(* The road graph G: a MultiDiGraph.  G.nodes maps a node id to its position,
   G.edges is the edge list in the order G.edges() yields it. *)

NumGraphNodes == 3     \* nodes of the road graph, ids 1..NumGraphNodes

Nodes == 1..NumGraphNodes

NodePos(n) == [x |-> 4 * (n % 2), y |-> 4 * (n \div 2)]

GraphNodes == [n \in Nodes |-> NodePos(n)]

NoEdgesGraph == [nodes |-> GraphNodes, edges |-> <<>>]

MaxEdges == 3          \* most edges of a drawn road graph

\* first bend of a curved road leaving u towards v
Bend(u, v) == <<NodePos(u).x + v, NodePos(u).y + 1>>

\* the geometry of a curved road: from u over one bend to v
Curve(u, v) == <<(<<NodePos(u).x, NodePos(u).y>>), Bend(u, v), (<<NodePos(v).x, NodePos(v).y>>)>>

\* an edge is a straight road without geometry, of length 1 or 3, or a curved
\* road of length 2 with a geometry
EdgeValues ==
    {[u |-> u, v |-> v, length |-> l, geometry |-> IF l = 2 THEN Curve(u, v) ELSE <<>>] :
        u \in Nodes, v \in Nodes, l \in {1, 2, 3}}

\* G.edges() walks the nodes, then each node's neighbours, then the parallel
\* edges: edges of one source are contiguous, and so are parallel edges
Grouped(s) ==
    \A i, j, k \in 1..Len(s) :
        (i < j /\ j < k /\ s[i].u = s[k].u) =>
            /\ s[j].u = s[i].u
            /\ (s[i].v = s[k].v => s[j].v = s[i].v)

Graphs == {[nodes |-> GraphNodes, edges |-> s] :
              s \in {s \in SeqsUpTo(EdgeValues, MaxEdges) : Grouped(s)}}

\* position = np.array([G.nodes[node]['x'], G.nodes[node]['y']])
get_position_of_node(g, node) == <<g.nodes[node].x, g.nodes[node].y>>

----------------------------------------------------------------------------
(* GeometryUtilities (module models) *)

\* Euclidean magnitude, kept as its square: the square root is strictly
\* increasing, so equal / smaller / larger distances stay so.
magnitude(v) == v[1] * v[1] + v[2] * v[2]

\* parallel(vector, vector): the cross product vanishes
determine_parralel_vectors(u, v) == u[1] * v[2] - u[2] * v[1] = 0

\* samples per waypoint-to-waypoint segment of the lookahead grid
LinspaceSamples == 3

LinspaceDen == LinspaceSamples - 1

\* np.linspace(a, b, LinspaceSamples), each sample as a numerator over LinspaceDen
linspace(a, b) == [k \in 1..LinspaceSamples |-> a * LinspaceDen + (k - 1) * (b - a)]

RECURSIVE FlattenSeq(_)
FlattenSeq(ss) == IF ss = <<>> THEN <<>> ELSE Head(ss) \o FlattenSeq(Tail(ss))

\* sample_linspace(waypoints) -> (x_samples, y_samples): the grid spanning the
\* look-ahead waypoints of the view
upcoming_linspace(v) ==
    LET w == v.v
    IN IF Len(w) = 1
       THEN <<(<<w[1][1] * LinspaceDen>>), (<<w[1][2] * LinspaceDen>>)>>
       ELSE <<FlattenSeq([i \in 1..(Len(w) - 1) |-> linspace(w[i][1], w[i + 1][1])]),
              FlattenSeq([i \in 1..(Len(w) - 1) |-> linspace(w[i][2], w[i + 1][2])])>>

----------------------------------------------------------------------------
(* FrontView *)

PyList(s) == [kind |-> "list", v |-> s]

\* Python truth value of a view: False and the empty list are falsy
Truthy(v) == v.kind = "list" /\ v.v # <<>>

Points == (0..MaxX) \X (0..MaxY)

Paths == SeqsUpTo(Points, MaxPathLen)

Cars == {[x |-> p[1], y |-> p[2],
          xpath |-> [i \in 1..Len(w) |-> w[i][1]],
          ypath |-> [i \in 1..Len(w) |-> w[i][2]],
          destination |-> d] : p \in Points, w \in Paths, d \in Nodes}

determine_view(c, K) ==
    IF c.xpath # <<>> /\ c.ypath # <<>>
    THEN LET x == Take(c.xpath, K)
             y == Take(c.ypath, K)
         IN PyList([i \in 1..Len(x) |-> <<x[i], y[i]>>])
    ELSE PyFalse

crossed_node_event(c, v) ==
    IF v.kind # "list" THEN Raise("TypeError")      \* False[0]
    ELSE IF v.v = <<>> THEN Raise("IndexError")
    ELSE LET car_near_xnode == isclose(v.v[1][1], c.x, 1)
             car_near_ynode == isclose(v.v[1][2], c.y, 1)
         IN Return(car_near_xnode /\ car_near_ynode)

upcoming_node_position(g, c, v) ==
    IF Truthy(v)
    THEN LET crossed == crossed_node_event(c, v)
         IN IF crossed.status = "raise" THEN crossed
            ELSE IF crossed.val
                 THEN IF Len(v.v) >= 2 THEN Return(v.v[2]) ELSE Raise("IndexError")
                 ELSE Return(v.v[1])
    ELSE Return(get_position_of_node(g, c.destination))

distance_to_node(g, c, v) ==
    LET next_node == upcoming_node_position(g, c, v)
    IN IF next_node.status = "raise" THEN next_node
       ELSE Return(Float(magnitude(<<next_node.val[1] - c.x, next_node.val[2] - c.y>>)))

\* np.isclose(space, obstacle, rtol=1.0e-6).any()
within_linspace(space, obstacle) ==
    \E k \in 1..Len(space) : isclose(space[k], obstacle * LinspaceDen, LinspaceDen)

\* the test of car_obstacles and light_obstacles: each axis on its own
on_grid(space, o) == within_linspace(space[1], o.x) /\ within_linspace(space[2], o.y)

\* index of the matching entry nearest to the car
NearestIndex(c, s) ==
    CHOOSE i \in 1..Len(s) : \A j \in 1..Len(s) :
        LET di == magnitude(<<s[i].x - c.x, s[i].y - c.y>>)
            dj == magnitude(<<s[j].x - c.x, s[j].y - c.y>>)
        IN di < dj \/ (di = dj /\ i <= j)

\* faulty variant: the nearest matching car wins
car_obstacles_nearest(c, v, cars) ==
    LET space == upcoming_linspace(v)
        obstacle_position == SelectSeq(cars, LAMBDA o : on_grid(space, o))
    IN IF obstacle_position # <<>>
       THEN LET first == obstacle_position[NearestIndex(c, obstacle_position)]
            IN Return(Float(magnitude(<<first.x - c.x, first.y - c.y>>)))
       ELSE Return(PyFalse)

car_obstacles(c, v, cars) ==
    LET space == upcoming_linspace(v)
        obstacle_position == SelectSeq(cars, LAMBDA o : on_grid(space, o))
    IN IF obstacle_position # <<>>
       THEN LET first == obstacle_position[1]
            IN Return(Float(magnitude(<<first.x - c.x, first.y - c.y>>)))
       ELSE Return(PyFalse)

\* the scan of the (go-value, direction-vector) pairs of one light:
\* zip(face_values, face_vectors) stops at the shorter list
RECURSIVE face_scan(_, _, _, _)
face_scan(car_vector, face_values, face_vectors, k) ==
    IF k > Len(face_values) \/ k > Len(face_vectors) THEN Return(PyFalse)
    ELSE IF ~face_values[k] /\ determine_parralel_vectors(car_vector, face_vectors[k])
         THEN Return(Float(magnitude(car_vector)))
         ELSE face_scan(car_vector, face_values, face_vectors, k + 1)

\* faulty variant: every light on the grid is scanned, not only the first
light_obstacles_any_light(c, v, lights) ==
    LET space == upcoming_linspace(v)
        light_index == SelectSeq([i \in 1..Len(lights) |-> i],
                                 LAMBDA i : on_grid(space, lights[i]))
        scan(i) == LET light == lights[i]
                   IN face_scan(<<light.x - c.x, light.y - c.y>>, light.go_values,
                                [k \in 1..light.degree |->
                                    <<light.out_xvectors[k], light.out_yvectors[k]>>], 1)
        red == SelectSeq(light_index, LAMBDA i : scan(i) # Return(PyFalse))
    IN IF red # <<>> THEN scan(red[1]) ELSE Return(PyFalse)

light_obstacles(c, v, lights) ==
    LET space == upcoming_linspace(v)
        light_index == SelectSeq([i \in 1..Len(lights) |-> i],
                                 LAMBDA i : on_grid(space, lights[i]))
    IN IF light_index # <<>>
       THEN LET light == lights[light_index[1]]
                car_vector == <<light.x - c.x, light.y - c.y>>
                face_values == light.go_values
            IN IF light.degree > Len(light.out_xvectors) \/ light.degree > Len(light.out_yvectors)
               THEN Raise("IndexError")
               ELSE face_scan(car_vector, face_values,
                              [k \in 1..light.degree |->
                                  <<light.out_xvectors[k], light.out_yvectors[k]>>], 1)
       ELSE Return(PyFalse)

----------------------------------------------------------------------------
(* Inputs of the perception calls *)

MaxLights == 2         \* longest light table drawn
MaxLightDegree == 2    \* most approach directions of a drawn light
MaxLightPathLen == 2   \* longest remaining path of a car facing the lights

Fleets == SeqsUpTo({[x |-> p[1], y |-> p[2]] : p \in Points}, MaxFleet)

OutVectors == {<<1, 0>>, <<0, 1>>}

\* the (go-value, out-vector) pairs of one light, one pair per approach road
RECURSIVE FacesOfLen(_)
FacesOfLen(n) ==
    IF n = 0 THEN {<<>>}
    ELSE UNION {{Append(f, a) : a \in {a \in BOOLEAN \X OutVectors :
                                          \A i \in 1..Len(f) : f[i][2] # a[2]}} :
                f \in FacesOfLen(n - 1)}

Faces == UNION {FacesOfLen(n) : n \in 0..MaxLightDegree}

Lights == {[x |-> p[1], y |-> p[2], degree |-> Len(f),
            go_values |-> [k \in 1..Len(f) |-> f[k][1]],
            out_xvectors |-> [k \in 1..Len(f) |-> f[k][2][1]],
            out_yvectors |-> [k \in 1..Len(f) |-> f[k][2][2]]] : p \in Points, f \in Faces}

\* the light table: one row per light node, each at its own position
RECURSIVE LightTablesOfLen(_)
LightTablesOfLen(n) ==
    IF n = 0 THEN {<<>>}
    ELSE UNION {{Append(t, l) : l \in {l \in Lights :
                                          \A i \in 1..Len(t) : <<t[i].x, t[i].y>> # <<l.x, l.y>>}} :
                t \in LightTablesOfLen(n - 1)}

LightTables == UNION {LightTablesOfLen(n) : n \in 0..MaxLights}

----------------------------------------------------------------------------
(* Perception of one car in one tick: the FrontView is constructed, then one
   of its operations is called. *)

InitView ==
    /\ degree_view = <<>>
    /\ G = NoEdgesGraph
    /\ car \in Cars
    /\ look_ahead_nodes \in 1..MaxLookAhead
    /\ view = determine_view(car, look_ahead_nodes)
    /\ op = "init"
    /\ arg = <<>>
    /\ result = NoResult

Call(name, a, r) ==
    /\ op = "init"
    /\ op' = name
    /\ arg' = a
    /\ result' = r
    /\ UNCHANGED <<degree_view, G, car, look_ahead_nodes, view>>

CrossedNodeEvent == Call("crossed_node_event", <<>>, crossed_node_event(car, view))

UpcomingNodePosition == Call("upcoming_node_position", <<>>, upcoming_node_position(G, car, view))

DistanceToNode == Call("distance_to_node", <<>>, distance_to_node(G, car, view))

DistanceToCar ==
    /\ op = "init"
    /\ Truthy(view)
    /\ \E cars \in Fleets : Call("distance_to_car", cars, car_obstacles(car, view, cars))

NextView == CrossedNodeEvent \/ UpcomingNodePosition \/ DistanceToNode \/ DistanceToCar

SpecView == InitView /\ [][NextView]_vars

DistanceToLight ==
    /\ op = "init"
    /\ Truthy(view)
    /\ \E lights \in LightTables : Call("distance_to_light", lights, light_obstacles(car, view, lights))

NextLight == DistanceToLight

\* FrontView.__init__(self, car, look_ahead_nodes=3)
default_look_ahead_nodes == 3

InitLight ==
    /\ degree_view = <<>>
    /\ G = NoEdgesGraph
    /\ car \in {c \in Cars : c.destination = 1 /\ Len(c.xpath) \in 1..MaxLightPathLen}
    /\ look_ahead_nodes = default_look_ahead_nodes
    /\ view = determine_view(car, look_ahead_nodes)
    /\ op = "init"
    /\ arg = <<>>
    /\ result = NoResult

SpecLight == InitLight /\ [][NextLight]_vars

----------------------------------------------------------------------------
(* PathPlanner *)

\* G.get_edge_data(u, v).values(): the parallel edges from u to v, in key order
get_edge_data(g, u, v) == SelectSeq(g.edges, LAMBDA e : e.u = u /\ e.v = v)

\* min(..., key=lambda x: x['length']): the first edge of least length
min_length_edge(es) ==
    es[CHOOSE i \in 1..Len(es) :
          /\ \A j \in 1..Len(es) : es[i].length <= es[j].length
          /\ \A j \in 1..(i - 1) : es[j].length > es[i].length]

\* weight of the step u -> v for the shortest-path search
StepWeight(g, u, v) == min_length_edge(get_edge_data(g, u, v)).length

RECURSIVE RouteWeight(_, _)
RouteWeight(g, r) ==
    IF Len(r) < 2 THEN 0
    ELSE StepWeight(g, r[1], r[2]) + RouteWeight(g, Tail(r))

\* the simple routes from origin to destination
Routes(g, origin, destination) ==
    {r \in SeqsUpTo(Nodes, NumGraphNodes) :
        /\ Len(r) >= 1
        /\ r[1] = origin
        /\ r[Len(r)] = destination
        /\ \A i, j \in 1..Len(r) : i # j => r[i] # r[j]
        /\ \A i \in 1..(Len(r) - 1) : get_edge_data(g, r[i], r[i + 1]) # <<>>}

\* nx.shortest_path(G, origin, destination, weight='length'): the routes of
\* least weight; which of several is returned is left open
shortest_path(g, origin, destination) ==
    LET rs == Routes(g, origin, destination)
    IN {r \in rs : \A q \in rs : RouteWeight(g, r) <= RouteWeight(g, q)}

\* faulty variant: the first parallel edge is taken, not the shortest
edge_line_first_parallel(g, u, v) ==
    LET data == get_edge_data(g, u, v)[1]
    IN IF data.geometry # <<>> THEN data.geometry
       ELSE <<(<<g.nodes[u].x, g.nodes[u].y>>), (<<g.nodes[v].x, g.nodes[v].y>>)>>

\* the body of the loop over edge_nodes: the line of one route step
edge_line(g, u, v) ==
    LET data == min_length_edge(get_edge_data(g, u, v))
    IN IF data.geometry # <<>> THEN data.geometry
       ELSE <<(<<g.nodes[u].x, g.nodes[u].y>>), (<<g.nodes[v].x, g.nodes[v].y>>)>>

route_lines(g, route) == [i \in 1..(Len(route) - 1) |-> edge_line(g, route[i], route[i + 1])]

\* the possible results of shortest_path_lines_nx(origin, destination)
shortest_path_lines_nx(g, origin, destination) ==
    LET rs == shortest_path(g, origin, destination)
    IN IF rs = {} THEN {Raise("NetworkXNoPath")}
       ELSE {Return(route_lines(g, route)) : route \in rs}

\* the possible results of lines_to_node(origin, destination)
lines_to_node(g, origin, destination) ==
    LET rs == shortest_path(g, origin, destination)
    IN IF rs = {} THEN {Raise("NetworkXNoPath")}
       ELSE {Return(route_lines(g, route)) : route \in rs}

\* decompile(lines) -> (xpath, ypath): the polylines concatenated and split
\* into the two coordinate sequences
path_decompiler(lines) ==
    LET pts == FlattenSeq(lines)
    IN [xpath |-> [i \in 1..Len(pts) |-> pts[i][1]],
        ypath |-> [i \in 1..Len(pts) |-> pts[i][2]]]

\* the possible results of get_init_path(origin, destination)
get_init_path(g, origin, destination) ==
    {IF lines.status = "raise" THEN lines ELSE Return(path_decompiler(lines.val)) :
        lines \in shortest_path_lines_nx(g, origin, destination)}

----------------------------------------------------------------------------
(* IntersectionClassifier: determine_pedigree *)

\* G.edges(): the (u, v) pairs
edge_pairs(g) == [i \in 1..Len(g.edges) |-> <<g.edges[i].u, g.edges[i].v>>]

left_edges(g, node_id) == SelectSeq(edge_pairs(g), LAMBDA e : e[1] = node_id)

right_edges(g, node_id) == SelectSeq(edge_pairs(g), LAMBDA e : e[2] = node_id)

\* list.pop(i)
Pop(s, i) == SubSeq(s, 1, i) \o SubSeq(s, i + 2, Len(s))

\* for i, right in enumerate(right_edges): ... right_edges.pop(i)
\* i is the 0-based position of the list iterator, which moves on by one
\* also after the list has shrunk under it
RECURSIVE pop_reversed(_, _, _)
pop_reversed(left, right, i) ==
    IF i >= Len(right) THEN right
    ELSE IF left[2] = right[i + 1][1] /\ right[i + 1][2] = left[1]
         THEN pop_reversed(left, Pop(right, i), i + 1)
         ELSE pop_reversed(left, right, i + 1)

RECURSIVE filter_right_edges(_, _, _)
filter_right_edges(lefts, right, k) ==
    IF k > Len(lefts) THEN right
    ELSE filter_right_edges(lefts, pop_reversed(lefts[k], right, 0), k + 1)

intersection_edges(g, node_id) ==
    left_edges(g, node_id)
        \o filter_right_edges(left_edges(g, node_id), right_edges(g, node_id), 1)

out_nodes(g, node_id) ==
    LET ie == intersection_edges(g, node_id)
    IN [k \in 1..Len(ie) |-> IF ie[k][1] = node_id THEN ie[k][2] ELSE ie[k][1]]

\* the loop over out_nodes from position k on: the possible results
RECURSIVE pedigree_vectors(_, _, _, _)
pedigree_vectors(g, node_id, nodes, k) ==
    IF k > Len(nodes) THEN {Return(<<>>)}
    ELSE LET position == get_position_of_node(g, node_id)
             rest == pedigree_vectors(g, node_id, nodes, k + 1)
             step(lines) ==
                 IF lines.status = "raise" THEN {lines}       \* NetworkXNoPath is not caught
                 ELSE IF lines.val = <<>> \/ Len(lines.val[1]) < 2
                      THEN rest                                \* except IndexError: continue
                      ELSE LET point == lines.val[1][2]
                               vector == <<point[1] - position[1], point[2] - position[2]>>
                           IN {IF r.status = "raise" THEN r ELSE Return(<<vector>> \o r.val) :
                                  r \in rest}
         IN UNION {step(lines) : lines \in lines_to_node(g, node_id, nodes[k])}

\* the possible results of determine_pedigree(node_id)
determine_pedigree(g, node_id) == pedigree_vectors(g, node_id, out_nodes(g, node_id), 1)

----------------------------------------------------------------------------
(* Precomputation over the road graph *)

InitLights ==
    /\ degree_view \in DegreeViews
    /\ G = NoEdgesGraph
    /\ car = [x |-> 0, y |-> 0, xpath |-> <<>>, ypath |-> <<>>, destination |-> 1]
    /\ look_ahead_nodes = default_look_ahead_nodes
    /\ view = PyFalse
    /\ op = "init"
    /\ arg = <<>>
    /\ result = NoResult

FindTrafficLights == Call("find_traffic_lights", <<>>, Return(find_traffic_lights(degree_view)))

NextLights == FindTrafficLights

SpecLights == InitLights /\ [][NextLights]_vars

InitGraph ==
    /\ degree_view = <<>>
    /\ G \in Graphs
    /\ car = [x |-> 0, y |-> 0, xpath |-> <<>>, ypath |-> <<>>, destination |-> 1]
    /\ look_ahead_nodes = default_look_ahead_nodes
    /\ view = PyFalse
    /\ op = "init"
    /\ arg = <<>>
    /\ result = NoResult

DeterminePedigree ==
    /\ op = "init"
    /\ \E node_id \in Nodes : \E r \in determine_pedigree(G, node_id) :
          Call("determine_pedigree", node_id, r)

GetInitPath ==
    /\ op = "init"
    /\ \E origin \in Nodes, destination \in Nodes :
          \E r \in get_init_path(G, origin, destination) :
             Call("get_init_path", <<origin, destination>>, r)

NextPedigree == DeterminePedigree

SpecPedigree == InitGraph /\ [][NextPedigree]_vars

NextPath == GetInitPath

SpecPath == InitGraph /\ [][NextPath]_vars

----------------------------------------------------------------------------
(* Properties *)

Dist(c, o) == magnitude(<<o.x - c.x, o.y - c.y>>)

\* the entries of a table whose position the per-axis test puts on the grid
OnGridIndex(v, table) == {i \in 1..Len(table) : on_grid(upcoming_linspace(v), table[i])}

Least(S) == CHOOSE i \in S : \A j \in S : i <= j

\* C1: find_traffic_lights returns exactly the nodes of degree > 3 whose
\* absolute index in the node-iteration order is a multiple of 4, each once
\* and in iteration order.
C1_PrescaledEligibleNodes ==
    op = "find_traffic_lights" =>
        LET r == result.val
            want == {i \in 1..Len(degree_view) :
                        degree_view[i][2] > 3 /\ (i - 1) % 4 = 0}
        IN /\ result.status = "return"
           /\ Len(r) = Cardinality(want)
           /\ \A i \in want : \E k \in 1..Len(r) : r[k] = degree_view[i]
           /\ \A k \in 1..Len(r) : \E i \in want : r[k] = degree_view[i]
           /\ \A k, l \in 1..Len(r) : k < l => r[k][1] < r[l][1]

\* eligible nodes at indices 3, 4 and 8 only: those at 4 and 8 are returned
C1_Witness ==
    /\ op = "find_traffic_lights"
    /\ \A i \in 1..Len(degree_view) : degree_view[i][2] > 3 <=> i - 1 \in {3, 4, 8}
    /\ result = Return(<<degree_view[5], degree_view[9]>>)

\* C2: distance_to_car returns "no obstacle" when no fleet position is on the
\* lookahead grid, and otherwise the distance to the first fleet entry on the
\* grid, in fleet order.
C2_FirstMatchingCar ==
    op = "distance_to_car" =>
        LET on == OnGridIndex(view, arg)
        IN IF on = {} THEN result = Return(PyFalse)
           ELSE result = Return(Float(Dist(car, arg[Least(on)])))

\* two fleet entries on the grid, the later one strictly nearer: the first wins
C2_Witness ==
    /\ op = "distance_to_car"
    /\ Len(arg) = 2
    /\ OnGridIndex(view, arg) = {1, 2}
    /\ Dist(car, arg[2]) < Dist(car, arg[1])
    /\ result = Return(Float(Dist(car, arg[1])))

\* a light has a red direction parallel to the vector from the car to it
RedParallel(c, light) ==
    \E k \in 1..light.degree :
        /\ ~light.go_values[k]
        /\ determine_parralel_vectors(<<light.x - c.x, light.y - c.y>>,
                                      <<light.out_xvectors[k], light.out_yvectors[k]>>)

\* C3: distance_to_light looks only at the first light on the lookahead grid and
\* returns the distance to it iff one of its directions is red and parallel to
\* the vector from the car to the light; otherwise "no obstacle"; it never raises.
C3_FirstLightRedParallel ==
    op = "distance_to_light" =>
        LET on == OnGridIndex(view, arg)
        IN IF on # {} /\ RedParallel(car, arg[Least(on)])
           THEN result = Return(Float(Dist(car, arg[Least(on)])))
           ELSE result = Return(PyFalse)

\* two lights on the grid, only the second has a red parallel direction
C3_Witness ==
    /\ op = "distance_to_light"
    /\ Len(arg) = 2
    /\ OnGridIndex(view, arg) = {1, 2}
    /\ ~RedParallel(car, arg[1])
    /\ RedParallel(car, arg[2])
    /\ result = Return(PyFalse)

\* C4: upcoming_node_position returns a position for every car state: the
\* second waypoint of the view when the car has crossed the first, the first
\* waypoint otherwise, the destination's position when the view is empty.
C4_UpcomingNodeAlwaysReturned ==
    op = "upcoming_node_position" =>
        /\ result.status = "return"
        /\ IF car.xpath = <<>>
           THEN result.val = get_position_of_node(G, car.destination)
           ELSE IF isclose(view.v[1][1], car.x, 1) /\ isclose(view.v[1][2], car.y, 1)
                THEN Len(view.v) >= 2 /\ result.val = view.v[2]
                ELSE result.val = view.v[1]

\* C5: for a car whose remaining path is empty the view is the end-of-route
\* signal, and crossed_node_event, upcoming_node_position and distance_to_node
\* all complete with a result.
C5_EndOfRouteNeverRaises ==
    car.xpath = <<>> =>
        /\ view.kind = "False"
        /\ op \in {"crossed_node_event", "upcoming_node_position", "distance_to_node"} =>
              result.status = "return"

\* an entry coincides with one sampled grid point: the same sample on both axes
OnSample(v, o) ==
    LET space == upcoming_linspace(v)
    IN \E k \in 1..Len(space[1]) :
          /\ isclose(space[1][k], o.x * LinspaceDen, LinspaceDen)
          /\ isclose(space[2][k], o.y * LinspaceDen, LinspaceDen)

\* C10: distance_to_car reports an obstacle only for a fleet entry that
\* coincides with one sampled grid point on both axes.
C10_ObstacleOnOneSample ==
    (op = "distance_to_car" /\ result.val.kind = "float") =>
        \E i \in 1..Len(arg) :
            /\ OnSample(view, arg[i])
            /\ result.val = Float(Dist(car, arg[i]))

\* the line of the road from u to v as the route decompiler should take it
ShortestParallelLine(g, u, v) ==
    LET es == get_edge_data(g, u, v)
        short == {i \in 1..Len(es) : \A j \in 1..Len(es) : es[i].length <= es[j].length}
        e == es[Least(short)]
    IN IF e.geometry # <<>> THEN e.geometry
       ELSE <<get_position_of_node(g, u), get_position_of_node(g, v)>>

RoutePoints(g, r) ==
    FlattenSeq([i \in 1..(Len(r) - 1) |-> ShortestParallelLine(g, r[i], r[i + 1])])

\* C6 as stated: for every connected origin/destination pair, origin equal to
\* destination included, xpath and ypath have equal and positive length.
C6_PositiveLengthPath ==
    (op = "get_init_path" /\ shortest_path(G, arg[1], arg[2]) # {}) =>
        /\ result.status = "return"
        /\ Len(result.val.xpath) = Len(result.val.ypath)
        /\ Len(result.val.xpath) > 0

\* C6 amended: for every connected pair xpath and ypath have equal length and
\* hold, step by step along a shortest route, the geometry of the shortest
\* parallel edge or the straight segment between the two node positions; the
\* length is positive when origin and destination differ and zero when equal.
C6_PathOfRoute ==
    (op = "get_init_path" /\ shortest_path(G, arg[1], arg[2]) # {}) =>
        /\ result.status = "return"
        /\ Len(result.val.xpath) = Len(result.val.ypath)
        /\ arg[1] # arg[2] => Len(result.val.xpath) > 0
        /\ arg[1] = arg[2] => Len(result.val.xpath) = 0
        /\ \E r \in shortest_path(G, arg[1], arg[2]) :
              LET pts == RoutePoints(G, r)
              IN /\ Len(pts) = Len(result.val.xpath)
                 /\ \A i \in 1..Len(pts) :
                       pts[i] = <<result.val.xpath[i], result.val.ypath[i]>>

\* a route of two steps, a curved shortest edge beside a longer straight one
C6_Witness ==
    /\ op = "get_init_path"
    /\ arg[1] # arg[2]
    /\ result.status = "return"
    /\ Len(result.val.xpath) = 5
    /\ \E i, j \in 1..Len(G.edges) :
          /\ i < j
          /\ G.edges[i].u = arg[1] /\ G.edges[j].u = arg[1]
          /\ G.edges[i].v = G.edges[j].v
          /\ G.edges[i].length = 3 /\ G.edges[j].length = 2

\* C7: after the filtering step of determine_pedigree no incoming edge (m, n)
\* is left whose reverse (n, m) is among the outgoing edges of the node.
C7_NoReversedIncomingEdgeKept ==
    op = "determine_pedigree" =>
        LET lefts == left_edges(G, arg)
            kept == filter_right_edges(lefts, right_edges(G, arg), 1)
        IN \A k \in 1..Len(kept) : \A j \in 1..Len(lefts) :
              ~(lefts[j][2] = kept[k][1] /\ kept[k][2] = lefts[j][1])

\* C8: determine_pedigree never raises, whatever the topology around the node.
C8_PedigreeNeverRaises ==
    op = "determine_pedigree" => result.status = "return"

\* the first point, beyond the intersection, of the road joining n and m
ApproachPoint(g, n, m) ==
    IF get_edge_data(g, n, m) # <<>>
    THEN ShortestParallelLine(g, n, m)[2]
    ELSE LET line == ShortestParallelLine(g, m, n) IN line[Len(line) - 1]

\* C9: each vector of determine_pedigree runs from the intersection to the
\* first point of the road joining the intersection and the kept neighbor.
C9_VectorAlongIncidentRoad ==
    (op = "determine_pedigree" /\ result.status = "return") =>
        LET kept == SelectSeq(out_nodes(G, arg), LAMBDA m : m # arg)
            position == get_position_of_node(G, arg)
        IN /\ Len(result.val) = Len(kept)
           /\ \A k \in 1..Len(kept) :
                 LET point == ApproachPoint(G, arg, kept[k])
                 IN result.val[k] = <<point[1] - position[1], point[2] - position[2]>>

====
